---- MODULE Spec2Model ----
(***************************************************************************)
(* Variable-base scalar multiplication of curve25519-dalek,                *)
(* backend/serial/scalar_mul/variable_base.rs: the generic engine          *)
(* (lines 12-49) and the SP1-accelerated engine (lines 58-62).             *)
(*                                                                         *)
(* A group element is a record [rep, v]: rep is the coordinate             *)
(* representation the Rust type fixes (P3 = EdwardsPoint, P1xP1 =          *)
(* CompletedPoint, P2 = ProjectivePoint, PNiels = ProjectiveNielsPoint,    *)
(* Affine = Ed25519AffinePoint) and v is the logical point, an element of  *)
(* the cyclic group Z_GroupOrder written additively (0 is the identity).   *)
(* A scalar is its 32 little-endian bytes, a function 0..31 -> 0..255, so  *)
(* that no 255-bit integer is ever formed.                                 *)
(***************************************************************************)
EXTENDS Integers, Sequences, FiniteSets, TLC

\* ------------------------------------------------------------------ bounds

\* Order of the model's group (the real group has order 8*l).
GroupOrder == 7

\* ------------------------------------------------------- program constants

\* radix of the signed-digit decomposition (16^1 ... 16^63)
Radix == 16
\* index of the most significant digit, scalar_digits[63]
TopIndex == 63
\* entries of the lookup table [P,2P,3P,4P,5P,6P,7P,8P]
TableSize == 8
\* doublings written out in one loop round (2*, 4*, 8*, 16*(prev))
DoublingsPerRound == 4

NumDigits == TopIndex + 1
NumBytes  == NumDigits \div 2

\* ------------------------------------------------------------ group elements

Pt(rep, v) == [rep |-> rep, v |-> v]

\* a value of the wrong representation; Rust's types rule it out
IllTyped == Pt("ill-typed", 0)

\* `let mut tmp2;` : declared, not yet assigned
Unassigned == Pt("unassigned", 0)

\* EdwardsPoint::identity()
Identity == Pt("P3", 0)

\* ProjectiveNielsPoint::identity(), the start value of select
NielsIdentity == Pt("PNiels", 0)

\* &EdwardsPoint + &ProjectiveNielsPoint -> CompletedPoint
AddNiels(a, b) ==
    IF a.rep = "P3" /\ b.rep = "PNiels"
    THEN Pt("P1xP1", (a.v + b.v) % GroupOrder)
    ELSE IllTyped

\* ProjectivePoint::double() -> CompletedPoint
Double(p) ==
    IF p.rep = "P2" THEN Pt("P1xP1", (p.v + p.v) % GroupOrder) ELSE IllTyped

\* CompletedPoint::as_projective() -> ProjectivePoint
AsProjective(p) == IF p.rep = "P1xP1" THEN Pt("P2", p.v) ELSE IllTyped

\* CompletedPoint::as_extended() -> EdwardsPoint
AsExtended(p) == IF p.rep = "P1xP1" THEN Pt("P3", p.v) ELSE IllTyped

\* EdwardsPoint::as_projective_niels() -> ProjectiveNielsPoint
AsProjectiveNiels(p) == IF p.rep = "P3" THEN Pt("PNiels", p.v) ELSE IllTyped

\* every value a point variable can hold
GroupElements ==
    [rep : {"P3", "P1xP1", "P2", "PNiels", "Affine", "ill-typed", "unassigned"},
     v : 0 .. GroupOrder - 1]

\* -ProjectiveNielsPoint (conditional_negate with the choice set)
NegNiels(p) ==
    IF p.rep = "PNiels" THEN Pt("PNiels", (GroupOrder - p.v) % GroupOrder)
    ELSE IllTyped

\* --------------------------------------------------------------- the table

\* LookupTable::<ProjectiveNielsPoint>::from(P):
\* let mut points = [P.as_projective_niels(); 8];
\* for j in 0..7 { points[j+1] = (P + &points[j]).as_extended().as_projective_niels(); }
LookupTableFrom(P) ==
    LET FillTable[points \in [0 .. TableSize - 1 -> GroupElements],
                  j \in 0 .. TableSize - 1] ==
            IF j >= TableSize - 1 THEN points
            ELSE FillTable[[points EXCEPT ![j + 1] =
                                AsProjectiveNiels(AsExtended(AddNiels(P, points[j])))],
                           j + 1]
    IN  FillTable[[j \in 0 .. TableSize - 1 |-> AsProjectiveNiels(P)], 0]

\* the scan of select: for j in 1..9 { t.conditional_assign(&table[j-1], xabs == j) }
RECURSIVE SelectScan(_, _, _, _)
SelectScan(table, xabs, j, t) ==
    IF j > TableSize THEN t
    ELSE SelectScan(table, xabs, j + 1, IF xabs = j THEN table[j - 1] ELSE t)

\* LookupTable::select(x): |x| picks the entry (identity when x = 0), the
\* sign of x negates it
Select(table, x) ==
    LET xabs == IF x < 0 THEN -x ELSE x
        t    == SelectScan(table, xabs, 1, NielsIdentity)
    IN  IF x < 0 THEN NegNiels(t) ELSE t

\* ------------------------------------------------------ digit decomposition

\* step 1 of as_radix_16: output[2i] = self[i] & 15, output[2i+1] = self[i] >> 4
Nibbles(bytes) ==
    [k \in 0 .. NumDigits - 1 |->
        IF k % 2 = 0 THEN bytes[k \div 2] % Radix ELSE bytes[k \div 2] \div Radix]

\* Scalar::as_radix_16(): step 1, then step 2:
\* for i in 0..63 { carry = (output[i] + 8) >> 4;
\*                  output[i] -= carry << 4; output[i+1] += carry }
\* (output[63] is not recentered)
AsRadix16(bytes) ==
    LET Recenter[output \in [0 .. NumDigits - 1 -> Int], k \in 0 .. TopIndex] ==
            IF k >= TopIndex THEN output
            ELSE LET carry == (output[k] + Radix \div 2) \div Radix
                 IN  Recenter[[output EXCEPT ![k] = @ - carry * Radix,
                                             ![k + 1] = @ + carry], k + 1]
    IN  Recenter[Nibbles(bytes), 0]

\* ------------------------------------------------------------------ inputs

\* bytes a scalar is assembled from: byte 0, bytes 1..30 (all alike), byte 31
LowBytes  == {0, 1, 2, 7, 8, 16, 248, 255}
FillBytes == {0, 136, 255}
\* Scalar invariant #1: s < 2^255, the top bit of byte 31 is clear
TopBytes  == {0, 16, 127}

ScalarOf(lo, fill, hi) ==
    [k \in 0 .. NumBytes - 1 |->
        IF k = 0 THEN lo ELSE IF k = NumBytes - 1 THEN hi ELSE fill]

Scalars == {ScalarOf(lo, fill, hi) : lo \in LowBytes, fill \in FillBytes, hi \in TopBytes}

Points == {Pt("P3", v) : v \in 0 .. GroupOrder - 1}

ZeroScalar == ScalarOf(0, 0, 0)

\* ------------------------------------------------------------------- state

VARIABLES
    variant,        \* which mul the build selected: "generic" or "accelerated"
    point,          \* argument point: &EdwardsPoint
    scalar,         \* argument scalar: &Scalar, as its bytes
    pc,             \* the statement of mul that runs next
    lookup_table,   \* generic: the table, << >> before line 14
    scalar_digits,  \* generic: the digits, << >> before line 21
    tmp1,           \* generic: CompletedPoint accumulator
    tmp2,           \* generic: ProjectivePoint temporary
    tmp3,           \* generic: EdwardsPoint temporary
    i,              \* generic: index of the digit being processed
    dbl,            \* generic: doublings done in the current loop round
    ed_point,       \* accelerated: the Ed25519AffinePoint
    host_status,    \* accelerated: "none", "ok" or "err" of mul_assign
    result,         \* the returned EdwardsPoint, Unassigned until mul returns
    table_builds,   \* history: tables built
    doublings,      \* history: calls of double()
    additions,      \* history: point additions
    consumed,       \* history: the digit indices passed to select, in order
    host_calls,     \* history: calls of the host intrinsic
    steps           \* history: statements of mul executed

vars == <<variant, point, scalar, pc, lookup_table, scalar_digits, tmp1, tmp2,
          tmp3, i, dbl, ed_point, host_status, result, table_builds, doublings,
          additions, consumed, host_calls, steps>>

generic_locals == <<lookup_table, scalar_digits, tmp1, tmp2, tmp3, i, dbl>>
generic_history == <<table_builds, doublings, additions, consumed>>
accel_locals == <<ed_point, host_status, host_calls>>
args == <<variant, point, scalar>>

Init ==
    /\ variant \in {"generic", "accelerated"}
    /\ point \in Points
    /\ scalar \in Scalars
    /\ pc = IF variant = "generic" THEN "table" ELSE "into_affine"
    /\ lookup_table = << >>
    /\ scalar_digits = << >>
    /\ tmp1 = Unassigned
    /\ tmp2 = Unassigned
    /\ tmp3 = Unassigned
    /\ i = NumDigits
    /\ dbl = 0
    /\ ed_point = Unassigned
    /\ host_status = "none"
    /\ result = Unassigned
    /\ table_builds = 0
    /\ doublings = 0
    /\ additions = 0
    /\ consumed = << >>
    /\ host_calls = 0
    /\ steps = 0

\* ------------------------------------------------------- the generic engine

\* BuildTable with the table built from the identity instead of the argument
BuildTable_FromIdentity ==
    /\ pc = "table"
    /\ steps' = steps + 1
    /\ lookup_table' = LookupTableFrom(Identity)
    /\ table_builds' = table_builds + 1
    /\ pc' = "digits"
    /\ UNCHANGED <<args, scalar_digits, tmp1, tmp2, tmp3, i, dbl, accel_locals,
                   result, doublings, additions, consumed>>

\* line 14: let lookup_table = LookupTable::<ProjectiveNielsPoint>::from(point);
BuildTable ==
    /\ pc = "table"
    /\ steps' = steps + 1
    /\ lookup_table' = LookupTableFrom(point)
    /\ table_builds' = table_builds + 1
    /\ pc' = "digits"
    /\ UNCHANGED <<args, scalar_digits, tmp1, tmp2, tmp3, i, dbl, accel_locals,
                   result, doublings, additions, consumed>>

\* Decompose with the unsigned nibbles, the recentering left out
Decompose_Unsigned ==
    /\ pc = "digits"
    /\ steps' = steps + 1
    /\ scalar_digits' = Nibbles(scalar)
    /\ pc' = "fold"
    /\ UNCHANGED <<args, lookup_table, tmp1, tmp2, tmp3, i, dbl, accel_locals,
                   result, generic_history>>

\* line 21: let scalar_digits = scalar.as_radix_16();
Decompose ==
    /\ pc = "digits"
    /\ steps' = steps + 1
    /\ scalar_digits' = AsRadix16(scalar)
    /\ pc' = "fold"
    /\ UNCHANGED <<args, lookup_table, tmp1, tmp2, tmp3, i, dbl, accel_locals,
                   result, generic_history>>

\* FoldTopDigit reading scalar_digits[62]: an index off by one
FoldTopDigit_OffByOne ==
    /\ pc = "fold"
    /\ steps' = steps + 1
    /\ tmp3' = Identity
    /\ tmp1' = AddNiels(tmp3', Select(lookup_table, scalar_digits[TopIndex - 1]))
    /\ i' = TopIndex
    /\ consumed' = Append(consumed, TopIndex)
    /\ additions' = additions + 1
    /\ pc' = "loop"
    /\ UNCHANGED <<args, lookup_table, scalar_digits, tmp2, dbl, accel_locals,
                   result, table_builds, doublings>>

\* FoldTopDigit with the accumulator started at the point, not the identity
FoldTopDigit_FromPoint ==
    /\ pc = "fold"
    /\ steps' = steps + 1
    /\ tmp3' = point
    /\ tmp1' = AddNiels(tmp3', Select(lookup_table, scalar_digits[TopIndex]))
    /\ i' = TopIndex
    /\ consumed' = Append(consumed, TopIndex)
    /\ additions' = additions + 1
    /\ pc' = "loop"
    /\ UNCHANGED <<args, lookup_table, scalar_digits, tmp2, dbl, accel_locals,
                   result, table_builds, doublings>>

\* lines 32-33: let mut tmp3 = EdwardsPoint::identity();
\*              let mut tmp1 = &tmp3 + &lookup_table.select(scalar_digits[63]);
FoldTopDigit ==
    /\ pc = "fold"
    /\ steps' = steps + 1
    /\ tmp3' = Identity
    /\ tmp1' = AddNiels(tmp3', Select(lookup_table, scalar_digits[TopIndex]))
    /\ i' = TopIndex
    /\ consumed' = Append(consumed, TopIndex)
    /\ additions' = additions + 1
    /\ pc' = "loop"
    /\ UNCHANGED <<args, lookup_table, scalar_digits, tmp2, dbl, accel_locals,
                   result, table_builds, doublings>>

\* line 35: for i in (0..63).rev(): the next index, or the end of the loop
LoopNext ==
    /\ pc = "loop"
    /\ i > 0
    /\ steps' = steps + 1
    /\ i' = i - 1
    /\ dbl' = 0
    /\ pc' = "as_projective"
    /\ UNCHANGED <<args, lookup_table, scalar_digits, tmp1, tmp2, tmp3,
                   accel_locals, result, generic_history>>

LoopExit ==
    /\ pc = "loop"
    /\ i = 0
    /\ steps' = steps + 1
    /\ pc' = "return"
    /\ UNCHANGED <<args, generic_locals, accel_locals, result, generic_history>>

\* lines 36, 38, 40, 42: tmp2 = tmp1.as_projective();
ToProjective ==
    /\ pc = "as_projective"
    /\ steps' = steps + 1
    /\ tmp2' = AsProjective(tmp1)
    /\ pc' = "double"
    /\ UNCHANGED <<args, lookup_table, scalar_digits, tmp1, tmp3, i, dbl,
                   accel_locals, result, generic_history>>

\* DoubleStep with one doubling of the round missing
DoubleStep_Three ==
    /\ pc = "double"
    /\ steps' = steps + 1
    /\ tmp1' = Double(tmp2)
    /\ dbl' = dbl + 1
    /\ doublings' = doublings + 1
    /\ pc' = IF dbl' < DoublingsPerRound - 1 THEN "as_projective" ELSE "as_extended"
    /\ UNCHANGED <<args, lookup_table, scalar_digits, tmp2, tmp3, i,
                   accel_locals, result, table_builds, additions, consumed>>

\* lines 37, 39, 41, 43: tmp1 = tmp2.double();
DoubleStep ==
    /\ pc = "double"
    /\ steps' = steps + 1
    /\ tmp1' = Double(tmp2)
    /\ dbl' = dbl + 1
    /\ doublings' = doublings + 1
    /\ pc' = IF dbl' < DoublingsPerRound THEN "as_projective" ELSE "as_extended"
    /\ UNCHANGED <<args, lookup_table, scalar_digits, tmp2, tmp3, i,
                   accel_locals, result, table_builds, additions, consumed>>

\* line 44: tmp3 = tmp1.as_extended();
ToExtended ==
    /\ pc = "as_extended"
    /\ steps' = steps + 1
    /\ tmp3' = AsExtended(tmp1)
    /\ pc' = "add"
    /\ UNCHANGED <<args, lookup_table, scalar_digits, tmp1, tmp2, i, dbl,
                   accel_locals, result, generic_history>>

\* AddDigit selecting by the magnitude of the digit, its sign dropped
AddDigit_NoSign ==
    /\ pc = "add"
    /\ steps' = steps + 1
    /\ tmp1' = AddNiels(tmp3, Select(lookup_table,
                   IF scalar_digits[i] < 0 THEN -scalar_digits[i] ELSE scalar_digits[i]))
    /\ consumed' = Append(consumed, i)
    /\ additions' = additions + 1
    /\ pc' = "loop"
    /\ UNCHANGED <<args, lookup_table, scalar_digits, tmp2, tmp3, i, dbl,
                   accel_locals, result, table_builds, doublings>>

\* AddDigit branching on the digit: a zero digit skips the selection and
\* the addition
AddDigit_SkipZero ==
    /\ pc = "add"
    /\ steps' = steps + 1
    /\ IF scalar_digits[i] = 0
       THEN /\ tmp1' = AddNiels(tmp3, NielsIdentity)
            /\ UNCHANGED <<consumed, additions>>
       ELSE /\ tmp1' = AddNiels(tmp3, Select(lookup_table, scalar_digits[i]))
            /\ consumed' = Append(consumed, i)
            /\ additions' = additions + 1
    /\ pc' = "loop"
    /\ UNCHANGED <<args, lookup_table, scalar_digits, tmp2, tmp3, i, dbl,
                   accel_locals, result, table_builds, doublings>>

\* AddDigit walking the digits upwards: the .rev() of the loop forgotten
AddDigit_Ascending ==
    /\ pc = "add"
    /\ steps' = steps + 1
    /\ tmp1' = AddNiels(tmp3, Select(lookup_table, scalar_digits[TopIndex - 1 - i]))
    /\ consumed' = Append(consumed, TopIndex - 1 - i)
    /\ additions' = additions + 1
    /\ pc' = "loop"
    /\ UNCHANGED <<args, lookup_table, scalar_digits, tmp2, tmp3, i, dbl,
                   accel_locals, result, table_builds, doublings>>

\* line 45: tmp1 = &tmp3 + &lookup_table.select(scalar_digits[i]);
AddDigit ==
    /\ pc = "add"
    /\ steps' = steps + 1
    /\ tmp1' = AddNiels(tmp3, Select(lookup_table, scalar_digits[i]))
    /\ consumed' = Append(consumed, i)
    /\ additions' = additions + 1
    /\ pc' = "loop"
    /\ UNCHANGED <<args, lookup_table, scalar_digits, tmp2, tmp3, i, dbl,
                   accel_locals, result, table_builds, doublings>>

\* line 48: tmp1.as_extended()
Return ==
    /\ pc = "return"
    /\ steps' = steps + 1
    /\ result' = AsExtended(tmp1)
    /\ pc' = "done"
    /\ UNCHANGED <<args, generic_locals, accel_locals, generic_history>>

\* --------------------------------------------------- the accelerated engine

\* Ed25519AffinePoint::from(EdwardsPoint)
IntoAffine(p) == IF p.rep = "P3" THEN Pt("Affine", p.v) ELSE IllTyped

\* EdwardsPoint::from(Ed25519AffinePoint)
FromAffine(p) == IF p.rep = "Affine" THEN Pt("P3", p.v) ELSE IllTyped

\* line 59: let mut ed_point: Ed25519AffinePoint = (*point).into();
ConvertPoint ==
    /\ pc = "into_affine"
    /\ steps' = steps + 1
    /\ ed_point' = IntoAffine(point)
    /\ pc' = "host_mul"
    /\ UNCHANGED <<args, generic_locals, host_status, host_calls, result,
                   generic_history>>

\* line 60: ed_point.mul_assign(words) returns Ok(()): the intrinsic has
\* stored its answer, whatever it is, in ed_point
HostMulOk ==
    /\ pc = "host_mul"
    /\ steps' = steps + 1
    /\ \E v \in 0 .. GroupOrder - 1 : ed_point' = Pt("Affine", v)
    /\ host_status' = "ok"
    /\ host_calls' = host_calls + 1
    /\ pc' = "from_affine"
    /\ UNCHANGED <<args, generic_locals, result, generic_history>>

\* HostMulErr falling back to the generic engine instead of panicking
HostMulErr_Fallback ==
    /\ pc = "host_mul"
    /\ steps' = steps + 1
    /\ host_status' = "err"
    /\ host_calls' = host_calls + 1
    /\ pc' = "table"
    /\ UNCHANGED <<args, generic_locals, ed_point, result, generic_history>>

\* line 60: mul_assign returns Err and .expect("Scalar multiplication
\* failed") panics
HostMulErr ==
    /\ pc = "host_mul"
    /\ steps' = steps + 1
    /\ host_status' = "err"
    /\ host_calls' = host_calls + 1
    /\ pc' = "aborted"
    /\ UNCHANGED <<args, generic_locals, ed_point, result, generic_history>>

\* line 61: ed_point.into()
ReturnAffine ==
    /\ pc = "from_affine"
    /\ steps' = steps + 1
    /\ result' = FromAffine(ed_point)
    /\ pc' = "done"
    /\ UNCHANGED <<args, generic_locals, accel_locals, generic_history>>

\* ------------------------------------------------------------ specification

Next ==
    \/ BuildTable
    \/ Decompose
    \/ FoldTopDigit
    \/ LoopNext
    \/ LoopExit
    \/ ToProjective
    \/ DoubleStep
    \/ ToExtended
    \/ AddDigit
    \/ Return
    \/ ConvertPoint
    \/ HostMulOk
    \/ HostMulErr
    \/ ReturnAffine

Spec == Init /\ [][Next]_vars

\* ------------------------------------------------------- reference notions

Generic == variant = "generic"

\* bit n of a byte, n = 0 the least significant
RECURSIVE Pow2(_)
Pow2(n) == IF n = 0 THEN 1 ELSE 2 * Pow2(n - 1)

Bit(byte, n) == (byte \div Pow2(n)) % 2

\* one step of binary double-and-add on the logical points: double the
\* accumulator, add P when the bit is set
BitStep(P, bit, acc) ==
    LET twice == (acc + acc) % GroupOrder
    IN  IF bit = 1 THEN (twice + P) % GroupOrder ELSE twice

\* the eight steps of one byte, bit 7 first, from the accumulator acc
RECURSIVE ByteSteps(_, _, _, _)
ByteSteps(P, byte, n, acc) ==
    IF n < 0 THEN acc
    ELSE ByteSteps(P, byte, n - 1, BitStep(P, Bit(byte, n), acc))

\* naive binary double-and-add, most significant bit first: the result for
\* the bytes 31 .. k of the scalar (the test of upper has the bytes above k
\* evaluated before the steps of byte k start)
RECURSIVE NaiveMul(_, _, _)
NaiveMul(P, bytes, k) ==
    IF k >= NumBytes THEN 0
    ELSE LET upper == NaiveMul(P, bytes, k + 1)
         IN  IF upper >= 0 THEN ByteSteps(P, bytes[k], 7, upper) ELSE upper

Reference(P, bytes) == NaiveMul(P.v, bytes, 0)

\* k times the logical point P, k any integer
Times(k, P) == (k * P.v) % GroupOrder

\* sum over j = from..63 of d[j] * 16^(j - from) * weight, the powers of 16
\* taken in Z_GroupOrder
RECURSIVE WeightedSum(_, _, _)
WeightedSum(d, from, weight) ==
    IF from > TopIndex THEN 0
    ELSE d[from] * weight + WeightedSum(d, from + 1, (Radix * weight) % GroupOrder)

\* the scalar in Z_GroupOrder, from its bytes
RECURSIVE ScalarMod(_, _)
ScalarMod(bytes, k) ==
    IF k >= NumBytes THEN 0
    ELSE (bytes[k] + 256 * ScalarMod(bytes, k + 1)) % GroupOrder

\* sum of d[j] * 16^j equals the scalar exactly: carried from the bottom,
\* the digits 2k and 2k+1 give byte k of the scalar, and nothing is carried
\* out of the top
RECURSIVE Reconstructs(_, _, _, _)
Reconstructs(d, bytes, k, carry) ==
    IF k >= NumBytes THEN carry = 0
    ELSE LET t0 == d[2 * k] + carry
             n0 == t0 % Radix
             t1 == d[2 * k + 1] + (t0 - n0) \div Radix
             n1 == t1 % Radix
         IN  /\ n0 + Radix * n1 = bytes[k]
             /\ Reconstructs(d, bytes, k + 1, (t1 - n1) \div Radix)

\* ------------------------------------------------------------------ claims

\* C1: the generic engine returns, for every point and every scalar
\* s < 2^255, the group element the naive binary double-and-add computes.
C1_MatchesReference ==
    (Generic /\ pc = "done") => result = Pt("P3", Reference(point, scalar))

C1_Witness ==
    /\ Generic /\ pc = "done"
    /\ scalar_digits[TopIndex] = 8
    /\ \E j \in 0 .. TopIndex : scalar_digits[j] < 0
    /\ result.v # 0

\* C2: after the step that processes digit index i (the fold for 63, the end
\* of a loop round for 62..0) the accumulator is the sum over j = i..63 of
\* digit_j * 16^(j-i) * point; at i = 0 it is scalar * point.
C2_PartialSum ==
    (Generic /\ pc = "loop") =>
        /\ tmp1 = Pt("P1xP1", Times(WeightedSum(scalar_digits, i, 1), point))
        /\ i = 0 => tmp1.v = Times(ScalarMod(scalar, 0), point)

C2_Witness ==
    /\ Generic /\ pc = "loop" /\ i = 0
    /\ tmp1.v # 0
    /\ \E j \in 0 .. TopIndex : scalar_digits[j] < 0

\* statements one call of the generic engine executes: lines 14, 21 and
\* 32-33, the loop head and the ten statements of each of the 63 rounds,
\* the loop's end and line 48
StatementsPerCall == 5 + TopIndex * (2 * DoublingsPerRound + 3)

\* C3 as claimed: mul ends after a fixed number of steps, 64 digit
\* iterations, each with exactly 4 doublings and exactly 1 selection/addition
\* (so 4 more doublings with every digit processed, the top one included).
C3_FourDoublingsPerDigit ==
    Generic =>
        /\ steps <= StatementsPerCall
        /\ pc = "loop" =>
               /\ additions = NumDigits - i
               /\ Len(consumed) = NumDigits - i
               /\ doublings = DoublingsPerRound * (NumDigits - i)

\* C3 as amended: mul ends after a fixed number of steps whatever the
\* inputs: 64 digit steps with exactly 1 selection/addition each, of which
\* the 63 loop rounds (digits 62..0) do exactly 4 doublings each and the
\* unrolled step of digit 63 does none: 252 doublings and 64 additions. No
\* state before the return is stuck, every statement counts as one step and
\* the return is reached after the same number of steps for every input.
C3_FixedSteps ==
    Generic =>
        /\ steps <= StatementsPerCall
        /\ pc # "done" => (steps < StatementsPerCall /\ ENABLED Next)
        /\ pc = "loop" =>
               /\ additions = NumDigits - i
               /\ Len(consumed) = NumDigits - i
               /\ doublings = DoublingsPerRound * (TopIndex - i)
        /\ pc = "done" =>
               /\ steps = StatementsPerCall
               /\ additions = NumDigits
               /\ Len(consumed) = NumDigits
               /\ doublings = DoublingsPerRound * TopIndex

C3_Witness ==
    /\ Generic /\ pc = "done"
    /\ steps = StatementsPerCall
    /\ doublings = 252 /\ additions = 64
    /\ scalar # ZeroScalar

\* what a run shows of its control: the statement, the loop index, the place
\* in the round and how many operations of each kind have run
Observable ==
    <<pc, i, dbl, table_builds, doublings, additions, Len(consumed)>>

\* the one observable that can follow o in a run of the generic engine
ObservableAfter(o) ==
    LET at == o[1]
    IN  CASE at = "table"         -> <<"digits", o[2], o[3], o[4] + 1, o[5], o[6], o[7]>>
          [] at = "digits"        -> <<"fold", o[2], o[3], o[4], o[5], o[6], o[7]>>
          [] at = "fold"          -> <<"loop", TopIndex, o[3], o[4], o[5], o[6] + 1, o[7] + 1>>
          [] at = "loop"          -> IF o[2] > 0
                                     THEN <<"as_projective", o[2] - 1, 0, o[4], o[5], o[6], o[7]>>
                                     ELSE <<"return", o[2], o[3], o[4], o[5], o[6], o[7]>>
          [] at = "as_projective" -> <<"double", o[2], o[3], o[4], o[5], o[6], o[7]>>
          [] at = "double"        -> <<IF o[3] + 1 < DoublingsPerRound
                                       THEN "as_projective" ELSE "as_extended",
                                       o[2], o[3] + 1, o[4], o[5] + 1, o[6], o[7]>>
          [] at = "as_extended"   -> <<"add", o[2], o[3], o[4], o[5], o[6], o[7]>>
          [] at = "add"           -> <<"loop", o[2], o[3], o[4], o[5], o[6] + 1, o[7] + 1>>
          [] at = "return"        -> <<"done", o[2], o[3], o[4], o[5], o[6], o[7]>>
          [] OTHER                -> o

\* C4: for a fixed point, the runs of the generic engine for any two scalars
\* execute the same operations with the same loop indices at every step: the
\* operation and index that come next are a function of the operation and
\* index that came last, never of the scalar, its digits or the
\* accumulators, and every run starts at the same place.
C4_ScalarIndependentControl ==
    [][Generic => Observable' = ObservableAfter(Observable)]_vars

C4_Witness ==
    /\ Generic /\ pc = "loop" /\ i < TopIndex
    /\ scalar_digits[i] = 0
    /\ Len(consumed) = NumDigits - i
    /\ \E j \in 0 .. TopIndex : scalar_digits[j] # 0

\* C5: mul(identity, s) is the identity for every scalar s, and mul(P, 0)
\* is the identity for every point P: scalar 0 has all digits 0.
C5_IdentityAbsorption ==
    Generic =>
        /\ (scalar = ZeroScalar /\ scalar_digits # << >>)
               => \A j \in 0 .. TopIndex : scalar_digits[j] = 0
        /\ (pc = "done" /\ (point = Identity \/ scalar = ZeroScalar))
               => result = Identity

C5_Witness ==
    /\ Generic /\ pc = "done"
    /\ scalar = ZeroScalar /\ point # Identity
    /\ result = Identity

\* C6: the decomposition mul uses (line 21, seen as it returns) yields
\* exactly 64 signed digits whose sum of digit_i * 16^i is the scalar
\* exactly, with every digit at positions 0..62 in [-8, 7] and the digit at
\* position 63 in [-8, 8].
C6_DigitsReconstruct ==
    (Generic /\ pc = "fold") =>
        /\ DOMAIN scalar_digits = 0 .. NumDigits - 1
        /\ \A j \in 0 .. TopIndex - 1 : scalar_digits[j] \in -8 .. 7
        /\ scalar_digits[TopIndex] \in -8 .. 8
        /\ Reconstructs(scalar_digits, scalar, 0, 0)

C6_Witness ==
    /\ Generic /\ pc = "fold"
    /\ scalar_digits[TopIndex] = 8
    /\ \E j \in 0 .. TopIndex - 1 : scalar_digits[j] = -8
    /\ \E j \in 0 .. TopIndex - 1 : scalar_digits[j] = 7

\* C7: the table built from P (line 14, seen as it returns) holds
\* 1*P .. 8*P, select(table, k) is k*P for every k in [-8, 8] other than 0
\* and the identity for k = 0.
C7_SelectIsMultiple ==
    (Generic /\ pc = "digits") =>
        /\ \A j \in 0 .. TableSize - 1 :
               lookup_table[j] = Pt("PNiels", Times(j + 1, point))
        /\ \A k \in (-8 .. 8) \ {0} :
               Select(lookup_table, k) = Pt("PNiels", Times(k, point))
        /\ Select(lookup_table, 0) = Pt("PNiels", 0)

C7_Witness ==
    /\ Generic /\ pc = "digits"
    /\ point # Identity
    /\ Select(lookup_table, -8) # Select(lookup_table, 8)

\* C9: in the accelerated engine a failure of the host intrinsic aborts mul:
\* no element is returned, the generic engine does not run, the call is not
\* repeated; a success returns the intrinsic's answer as an EdwardsPoint.
C9_HostFailureAborts ==
    (variant = "accelerated") =>
        /\ host_calls <= 1
        /\ lookup_table = << >> /\ scalar_digits = << >>
        /\ table_builds = 0 /\ additions = 0 /\ doublings = 0
        /\ host_status = "err" =>
               (pc = "aborted" /\ result = Unassigned /\ ~ENABLED Next)
        /\ pc = "done" =>
               /\ host_status = "ok"
               /\ ed_point.rep = "Affine"
               /\ result = Pt("P3", ed_point.v)

C9_Witness ==
    /\ variant = "accelerated"
    /\ pc = "aborted" /\ host_status = "err" /\ host_calls = 1

\* the digits consumed so far are 63, 62, ... in this order
Descending(seq) == \A n \in 1 .. Len(seq) : seq[n] = NumDigits - n

\* in every state: at most one table built, built before anything is
\* selected, the selections in descending order and all 64 made at the return
C10_Order ==
    Generic =>
        /\ table_builds <= 1
        /\ consumed # << >> => (table_builds = 1 /\ lookup_table # << >>)
        /\ Descending(consumed)
        /\ pc = "done" => Len(consumed) = NumDigits

\* in every step: a built table is left as it is, a table is built only while
\* nothing has been selected, and a loop round's selection and addition
\* comes with the four doublings of its round done
C10_Step ==
    Generic =>
        /\ lookup_table # << >> => lookup_table' = lookup_table
        /\ table_builds' # table_builds => consumed = << >>
        /\ (consumed' # consumed /\ consumed # << >>) =>
               /\ dbl = DoublingsPerRound
               /\ doublings' = DoublingsPerRound * Len(consumed)

\* C10: in one call of the generic engine the table is built exactly once,
\* before any selection, and never modified afterwards; the digit positions
\* are consumed in the order 63, 62, ..., 0, each exactly once; the four
\* doublings of a round come before the round's table addition.
C10_BuildOnceDescending == []C10_Order /\ [][C10_Step]_vars

C10_Witness ==
    /\ Generic /\ pc = "done"
    /\ Len(consumed) = NumDigits
    /\ consumed[NumDigits] = 0
    /\ table_builds = 1

====
